---- MODULE Spec2Model ----
(***************************************************************************)
(* A model of "exploring template literals": the value processor           *)
(* (processValue), the tag factory (processTag), the hand-written tag      *)
(* (basicTag), the two Babel plugins (transformTTL, transformLabelToReturn)*)
(* and fromFile, which rewrites a template source, wraps it in a function  *)
(* and lets the caller render it.                                          *)
(*                                                                         *)
(* JavaScript strings are sequences of one-character strings, JavaScript   *)
(* values are records tagged by the field k, syntax-tree nodes are records *)
(* tagged by the field type (Babel's node types).                          *)
(***************************************************************************)
EXTENDS Integers, Sequences, FiniteSets, TLC

VARIABLES
    host,          \* whether the engine defines the non-standard static Array.join
    mode,          \* "call": t(parts, ...values) is invoked; "file": fromFile(path)(context)
    phase,         \* "transform", "compiled", "running", "done"
    ast,           \* the Program node that transformSync rewrites (NoNode in mode "call")
    source,        \* the Program node as parsed, before any rewrite
    queue,         \* Babel's traversal queue: the paths still to visit, next one last
    replacements,  \* how many path.replaceWith calls the plugins have made
    logged,        \* what console.log has printed (one entry per call)
    scope,         \* the bindings free identifiers resolve against: <<name, value>> pairs
    stack,         \* the JavaScript call stack: one frame per running invocation
    outcome        \* what the outermost invocation produced: none, return or throw

vars == <<host, mode, phase, ast, source, queue, replacements, logged, scope, stack, outcome>>

-----------------------------------------------------------------------------
(* Bounds of the model                                                      *)

\* the longest value list of a direct call of the tag
MaxValues == 2
\* how deep callables that evaluate tagged templates nest in a direct call
MaxDepth == 2
\* the number of statements of a template source
MaxStmts == 2

-----------------------------------------------------------------------------
(* JavaScript strings                                                       *)

DigitChar == <<"0", "1", "2", "3", "4", "5", "6", "7", "8", "9">>

RECURSIVE Digits(_)
\* Number.prototype.toString of a non-negative integer
Digits(n) == IF n < 10 THEN <<DigitChar[n + 1]>>
             ELSE Digits(n \div 10) \o <<DigitChar[(n % 10) + 1]>>

TextUndefined == <<"u", "n", "d", "e", "f", "i", "n", "e", "d">>
TextNull == <<"n", "u", "l", "l">>
TextTrue == <<"t", "r", "u", "e">>
TextFalse == <<"f", "a", "l", "s", "e">>
TextObject == <<"[", "o", "b", "j", "e", "c", "t", " ", "O", "b", "j", "e", "c", "t", "]">>
\* Function.prototype.toString gives the function's source text; every
\* function of the model prints as the same four characters
TextFunction == <<"(", ")", "=", ">">>

RECURSIVE JoinWith(_, _)
\* the strings of seq joined with the separator sep
JoinWith(seq, sep) ==
    IF seq = <<>> THEN <<>>
    ELSE IF Len(seq) = 1 THEN seq[1]
    ELSE seq[1] \o sep \o JoinWith(Tail(seq), sep)

-----------------------------------------------------------------------------
(* JavaScript values                                                        *)

Undefined == [k |-> "undefined"]
Null == [k |-> "null"]
Bool(b) == [k |-> "boolean", b |-> b]
Num(n) == [k |-> "number", n |-> n]
Str(s) == [k |-> "string", s |-> s]
\* an array of values
Arr(e) == [k |-> "array", e |-> e]
\* a plain object: a sequence of <<key, value>> members
Obj(m) == [k |-> "object", m |-> m]
\* a closure: body is an expression node, a BlockStatement or a Native marker
Fun(body) == [k |-> "function", body |-> body]

\* the typeof operator
TypeOf(v) ==
    CASE v.k = "undefined" -> "undefined"
      [] v.k = "null" -> "object"
      [] v.k = "boolean" -> "boolean"
      [] v.k = "number" -> "number"
      [] v.k = "string" -> "string"
      [] v.k = "array" -> "object"
      [] v.k = "object" -> "object"
      [] v.k = "function" -> "function"

\* Array.isArray
IsArray(v) == v.k = "array"

\* ToBoolean(v) = false
Falsy(v) ==
    \/ v.k \in {"undefined", "null"}
    \/ v.k = "boolean" /\ ~v.b
    \/ v.k = "number" /\ v.n = 0
    \/ v.k = "string" /\ v.s = <<>>

\* the expression  a || b
Or(a, b) == IF Falsy(a) THEN b ELSE a

RECURSIVE ToStr(_)
\* ToString(ToPrimitive(v)): what string concatenation makes of a value
ToStr(v) ==
    CASE v.k = "undefined" -> TextUndefined
      [] v.k = "null" -> TextNull
      [] v.k = "boolean" -> IF v.b THEN TextTrue ELSE TextFalse
      [] v.k = "number" -> Digits(v.n)
      [] v.k = "string" -> v.s
      [] v.k = "array" ->
            JoinWith([j \in DOMAIN v.e |->
                        IF v.e[j].k \in {"undefined", "null"} THEN <<>> ELSE ToStr(v.e[j])],
                     <<",">>)
      [] v.k = "object" -> TextObject
      [] v.k = "function" -> TextFunction

\* the expression  a + b  when a is a string (the only use the code makes of +=)
Plus(a, b) == Str(a.s \o ToStr(b))

Quoted(s) == <<"\"">> \o s \o <<"\"">>

RECURSIVE JsonText(_)
\* JSON.stringify of a value that has a JSON text (not undefined, not a function)
JsonText(v) ==
    CASE v.k = "null" -> TextNull
      [] v.k = "boolean" -> IF v.b THEN TextTrue ELSE TextFalse
      [] v.k = "number" -> Digits(v.n)
      [] v.k = "string" -> Quoted(v.s)
      [] v.k = "array" ->
            <<"[">> \o
            JoinWith([j \in DOMAIN v.e |->
                        IF v.e[j].k \in {"undefined", "function"} THEN TextNull
                        ELSE JsonText(v.e[j])],
                     <<",">>)
            \o <<"]">>
      [] v.k = "object" ->
            LET kept == SelectSeq(v.m, LAMBDA p : p[2].k \notin {"undefined", "function"})
            IN  <<"{">> \o
                JoinWith([j \in DOMAIN kept |->
                            Quoted(kept[j][1]) \o <<":">> \o JsonText(kept[j][2])],
                         <<",">>)
                \o <<"}">>

\* JSON.stringify(v)
JsonStringify(v) ==
    IF v.k \in {"undefined", "function"} THEN Undefined ELSE Str(JsonText(v))

-----------------------------------------------------------------------------
(* Syntax-tree nodes (Babel's node types)                                   *)

\* a node that is not there: the argument of `return;`, a missing property
NoNode == [type |-> "none"]
\* a constant expression: a literal, an array or object expression of constants
Literal(value) == [type |-> "Literal", value |-> value]
Identifier(name) == [type |-> "Identifier", name |-> name]
\* start is the literal's position in the source text, which a rewrite keeps
TemplateLiteral(start, quasis, expressions) ==
    [type |-> "TemplateLiteral", start |-> start, quasis |-> quasis,
     expressions |-> expressions]
TaggedTemplateExpression(tag, quasi) ==
    [type |-> "TaggedTemplateExpression", tag |-> tag, quasi |-> quasi]
\* expression tells an expression body from a block body, as in Babel
ArrowFunctionExpression(body) ==
    [type |-> "ArrowFunctionExpression", params |-> <<>>, body |-> body,
     expression |-> (body.type # "BlockStatement")]
ExpressionStatement(expression) ==
    [type |-> "ExpressionStatement", expression |-> expression]
LabeledStatement(label, body) ==
    [type |-> "LabeledStatement", label |-> label, body |-> body]
BlockStatement(body) == [type |-> "BlockStatement", body |-> body]
ReturnStatement(argument) == [type |-> "ReturnStatement", argument |-> argument]
Program(body) == [type |-> "Program", body |-> body]
\* the body of a function the script itself defines: "t" or "basicTag"
Native(name) == [type |-> "Native", name |-> name]

\* the property node[key], undefined (NoNode) when the node has none
Prop(node, key) == IF key \in DOMAIN node THEN node[key] ELSE NoNode

-----------------------------------------------------------------------------
(* Outcomes and the value processor                                         *)

NoOutcome == [kind |-> "none"]
Return(v) == [kind |-> "return", value |-> v]
Throw(e) == [kind |-> "throw", error |-> e]
\* the function must first call fn with no arguments
Call(fn) == [kind |-> "call", fn |-> fn]

EmptyString == Str(<<>>)

\* the errors the engine raises
JoinIsNotAFunction == "TypeError: Array.join is not a function"
NotAFunction == "TypeError: tag is not a function"
ReadOfUndefined == "TypeError: Cannot read properties of undefined (reading '0')"
NotDefined == "ReferenceError: identifier is not defined"

\* Array.join(''): the static Array.join exists only on engines with the
\* non-standard array generics, where it joins its first argument, the
\* string '', as if it were the array; elsewhere the call is a TypeError
ArrayJoin ==
    IF host THEN Return(EmptyString) ELSE Throw(JoinIsNotAFunction)

\* a variant of processCalled that processes a returned record by its shape
processCalledByShape(r) ==
    IF TypeOf(r) = "object" /\ ~IsArray(r) THEN Or(JsonStringify(r), EmptyString)
    ELSE Or(r, EmptyString)

\* what processValue does with the result r of value()
processCalled(r) == Or(r, EmptyString)

\* processValue(value), up to the call of a callable value
processValue(value) ==
    IF TypeOf(value) = "function" THEN Call(value)
    ELSE IF IsArray(value) THEN
        (IF ArrayJoin.kind = "throw" THEN ArrayJoin
         ELSE Return(Or(ArrayJoin.value, EmptyString)))
    ELSE IF TypeOf(value) = "object" THEN Return(Or(JsonStringify(value), EmptyString))
    ELSE Return(Or(value, EmptyString))

-----------------------------------------------------------------------------
(* Frames of the call stack                                                 *)

\* seq[i] with JavaScript's indexing: from 0, undefined outside the array
At(seq, i) == IF i + 1 \in DOMAIN seq THEN seq[i + 1] ELSE Undefined

\* the fragments of a template literal, as the strings array a tag receives
Strings(quasis) == [j \in DOMAIN quasis |-> Str(quasis[j])]

\* the evaluation of a template literal, tagged (tagx) or not (NoNode):
\* first the tag expression, then the interpolations left to right, then
\* the call of the tag, whose locals are parts, values, result and i;
\* calls records each call of the processor: its argument, what the callable
\* it called returned (called) and what the processor returned (ret)
TemplateFrame(tagx, quasi) ==
    [kind |-> "template", phase |-> IF tagx = NoNode THEN "args" ELSE "tag",
     tagx |-> tagx, tagv |-> Undefined, parts |-> Strings(quasi.quasis),
     exprs |-> quasi.expressions, values |-> <<>>, i |-> 0, result |-> Undefined,
     calls |-> <<>>]

\* the direct call tag(parts, ...values)
CallFrame(tagv, parts, values) ==
    [kind |-> "template", phase |-> "args", tagx |-> Identifier("t"), tagv |-> tagv,
     parts |-> parts, exprs |-> <<>>, values |-> values, i |-> 0,
     result |-> Undefined, calls |-> <<>>]

\* the execution of a statement list; fn marks a function's body, returning
\* a return statement whose argument is being evaluated
BlockFrame(stmts, fn) ==
    [kind |-> "block", stmts |-> stmts, ip |-> 1, fn |-> fn, returning |-> FALSE]

\* a machine state: the stack and what the outermost invocation produced
M(stk, out) == [stack |-> stk, outcome |-> out]
Running(stk) == M(stk, NoOutcome)
\* nothing in the code catches: an exception ends every invocation
Thrown(e) == M(<<>>, Throw(e))

Top(stk) == stk[Len(stk)]
Pop(stk) == SubSeq(stk, 1, Len(stk) - 1)

-----------------------------------------------------------------------------
(* processTag                                                               *)

\* let result = parts[0]; for (var i = 1; ...
TagInit(frame) ==
    [frame EXCEPT !.result = At(frame.parts, 0), !.i = 1, !.phase = "loop"]

\* the loop test  i < parts.length
TagContinues(frame) == frame.i < Len(frame.parts)

\* a variant of TagArg that is off by one: values[i]
TagArgAtIndex(frame) == At(frame.values, frame.i)

\* the value the iteration hands to the processor
TagArg(frame) == At(frame.values, frame.i - 1)

\* no callable was called
NotCalled == NoOutcome

\* result += <processed>; result += parts[i]; i++
TagAppend(frame, called, ret) ==
    [frame EXCEPT !.result = Plus(Plus(@, ret), At(frame.parts, frame.i)),
                  !.i = @ + 1,
                  !.calls = Append(@, [arg |-> TagArg(frame), called |-> called,
                                       ret |-> ret])]

\* a variant of Resume for a loop index declared without var: one global i
ResumeSharedIndex(caller, callee) ==
    IF caller.kind = "template" THEN [caller EXCEPT !.i = callee.i] ELSE caller

\* the caller's frame when a call it made returns: result and i are locals
\* of each invocation, so the callee leaves them as they were
Resume(caller, callee) == caller

\* basicTag's iteration: result += values[i - 1]; result += parts[i]; i++
BasicTagAppend(frame) ==
    [frame EXCEPT !.result = Plus(Plus(@, At(frame.values, frame.i - 1)),
                                  At(frame.parts, frame.i)),
                  !.i = @ + 1]

\* an untagged template literal: the fragments and the values' strings
RECURSIVE Cooked(_, _)
Cooked(parts, values) ==
    IF Len(parts) = 1 THEN parts[1].s
    ELSE parts[1].s \o ToStr(values[1]) \o Cooked(Tail(parts), Tail(values))

-----------------------------------------------------------------------------
(* Evaluation                                                               *)

Bound(name) == \E j \in DOMAIN scope : scope[j][1] = name
Lookup(name) == scope[CHOOSE j \in DOMAIN scope : scope[j][1] = name][2]

\* the expressions whose evaluation calls nothing
IsSimple(e) == e.type \in {"Literal", "Identifier", "ArrowFunctionExpression"}

SimpleEval(e) ==
    CASE e.type = "Literal" -> Return(e.value)
      [] e.type = "ArrowFunctionExpression" -> Return(Fun(e.body))
      [] e.type = "Identifier" ->
            IF Bound(e.name) THEN Return(Lookup(e.name)) ELSE Throw(NotDefined)

RECURSIVE Deliver(_, _), Unwind(_, _)

\* the value v reaches the frame that waits for it on top of stk
Deliver(stk, v) ==
    IF stk = <<>> THEN M(<<>>, Return(v))
    ELSE LET top == Top(stk) IN
         CASE top.kind = "template" /\ top.phase = "tag" ->
                Running(Append(Pop(stk), [top EXCEPT !.tagv = v, !.phase = "args"]))
           [] top.kind = "template" /\ top.phase = "args" ->
                Running(Append(Pop(stk), [top EXCEPT !.values = Append(@, v)]))
           [] top.kind = "template" /\ top.phase = "loop" ->
                \* processValue's  return value() || ''  and the tag's two appends
                Running(Append(Pop(stk), TagAppend(top, Return(v), processCalled(v))))
           [] top.kind = "block" /\ top.returning -> Unwind(stk, v)
           [] top.kind = "block" /\ ~top.returning -> Running(stk)

\* a return statement leaves every block up to the function's body
Unwind(stk, v) ==
    IF stk = <<>> THEN M(<<>>, Return(v))
    ELSE IF Top(stk).kind = "block" /\ Top(stk).fn THEN Deliver(Pop(stk), v)
    ELSE Unwind(Pop(stk), v)

\* the evaluation of the expression e starts, its value wanted on top of stk
Evaluate(stk, e) ==
    IF IsSimple(e) THEN
        (IF SimpleEval(e).kind = "throw" THEN Thrown(SimpleEval(e).error)
         ELSE Deliver(stk, SimpleEval(e).value))
    ELSE IF e.type = "TemplateLiteral" THEN Running(Append(stk, TemplateFrame(NoNode, e)))
    ELSE Running(Append(stk, TemplateFrame(e.tag, e.quasi)))

\* the call f() with no arguments; a tag called so reads parts[0] of undefined
CallFunction(stk, f) ==
    CASE f.body.type = "Native" -> Thrown(ReadOfUndefined)
      [] f.body.type = "BlockStatement" -> Running(Append(stk, BlockFrame(f.body.body, TRUE)))
      [] OTHER -> Evaluate(stk, f.body)

IsTag(v, name) == v.k = "function" /\ v.body = Native(name)

-----------------------------------------------------------------------------
(* The steps of a running invocation                                        *)

Step(m) ==
    /\ stack' = m.stack
    /\ outcome' = m.outcome
    /\ phase' = IF m.outcome = NoOutcome THEN "running" ELSE "done"
    /\ UNCHANGED <<host, mode, ast, source, queue, replacements, logged, scope>>

OnTop(kind) == phase = "running" /\ stack # <<>> /\ Top(stack).kind = kind

\* the tag expression of a tagged template is evaluated first
EvalTag ==
    /\ OnTop("template") /\ Top(stack).phase = "tag"
    /\ Step(Evaluate(stack, Top(stack).tagx))

\* then its interpolations, left to right
EvalInterpolation ==
    /\ OnTop("template") /\ Top(stack).phase = "args" /\ Top(stack).exprs # <<>>
    /\ LET top == Top(stack) IN
       Step(Evaluate(Append(Pop(stack), [top EXCEPT !.exprs = Tail(@)]), Head(top.exprs)))

\* an untagged template literal is its fragments and values concatenated
TemplateValue ==
    /\ OnTop("template") /\ Top(stack).phase = "args" /\ Top(stack).exprs = <<>>
    /\ Top(stack).tagx = NoNode
    /\ Step(Deliver(Pop(stack), Str(Cooked(Top(stack).parts, Top(stack).values))))

\* the tag is called with the fragments and the values
TagCall ==
    /\ OnTop("template") /\ Top(stack).phase = "args" /\ Top(stack).exprs = <<>>
    /\ Top(stack).tagx # NoNode
    /\ LET top == Top(stack) IN
       IF TypeOf(top.tagv) # "function" THEN Step(Thrown(NotAFunction))
       ELSE IF top.tagv.body.type = "Native"
            THEN Step(Running(Append(Pop(stack), TagInit(top))))
       ELSE Step(CallFunction(Pop(stack), top.tagv))

\* one iteration of the loop of the tag processTag returned
ProcessTagStep ==
    /\ OnTop("template") /\ Top(stack).phase = "loop" /\ IsTag(Top(stack).tagv, "t")
    /\ TagContinues(Top(stack))
    /\ LET top == Top(stack)
           p == processValue(TagArg(top))
       IN  CASE p.kind = "return" ->
                    Step(Running(Append(Pop(stack), TagAppend(top, NotCalled, p.value))))
             [] p.kind = "throw" -> Step(Thrown(p.error))
             [] p.kind = "call" -> Step(CallFunction(stack, p.fn))

\* one iteration of basicTag's loop
BasicTagStep ==
    /\ OnTop("template") /\ Top(stack).phase = "loop" /\ IsTag(Top(stack).tagv, "basicTag")
    /\ TagContinues(Top(stack))
    /\ Step(Running(Append(Pop(stack), BasicTagAppend(Top(stack)))))

\* return result
TagReturn ==
    /\ OnTop("template") /\ Top(stack).phase = "loop" /\ ~TagContinues(Top(stack))
    /\ LET callee == Top(stack)
           rest == [j \in DOMAIN Pop(stack) |-> Resume(Pop(stack)[j], callee)]
       IN  Step(Deliver(rest, callee.result))

\* the next statement of a block
ExecStatement ==
    /\ OnTop("block") /\ Top(stack).ip <= Len(Top(stack).stmts)
    /\ LET top == Top(stack)
           s == top.stmts[top.ip]
           next == [top EXCEPT !.ip = @ + 1]
           under(f) == Append(Pop(stack), f)
       IN  CASE s.type = "ExpressionStatement" -> Step(Evaluate(under(next), s.expression))
             [] s.type = "ReturnStatement" ->
                    IF s.argument = NoNode
                    THEN Step(Unwind(stack, Undefined))
                    ELSE Step(Evaluate(under([next EXCEPT !.returning = TRUE]), s.argument))
             [] s.type = "BlockStatement" ->
                    Step(Running(Append(under(next), BlockFrame(s.body, FALSE))))
             [] s.type = "LabeledStatement" ->
                    Step(Running(Append(under(next), BlockFrame(<<s.body>>, FALSE))))

\* the end of a block; a function whose body ends returns undefined
BlockEnd ==
    /\ OnTop("block") /\ Top(stack).ip > Len(Top(stack).stmts)
    /\ IF Top(stack).fn THEN Step(Deliver(Pop(stack), Undefined))
       ELSE Step(Running(Pop(stack)))

Run ==
    \/ EvalTag
    \/ EvalInterpolation
    \/ TemplateValue
    \/ TagCall
    \/ ProcessTagStep
    \/ BasicTagStep
    \/ TagReturn
    \/ ExecStatement
    \/ BlockEnd

-----------------------------------------------------------------------------
(* The direct call of the tag: t(parts, ...values)                          *)

TagT == Fun(Native("t"))
TagBasic == Fun(Native("basicTag"))

\* the bindings of the script: its tags and, through with (data), the data
ModuleScope ==
    << <<"t", TagT>>, <<"basicTag", TagBasic>>,
       <<"name", Str(<<"R">>)>>, <<"mood", Str(<<"c">>)>> >>

StrX == Str(<<"x">>)
ArrXY == Arr(<<StrX, Str(<<"y">>)>>)
ObjA == Obj(<< <<"a", Num(1)>> >>)

\* the constants interpolated: one of each shape and emptiness
Constants ==
    {Undefined, Null, StrX, Num(0), Num(12), Arr(<<>>), ArrXY, ObjA}

\* t`<${e}>`
Wrapped(tag, e) ==
    TaggedTemplateExpression(Identifier(tag), TemplateLiteral(0, << <<"<">>, <<">">> >>, <<e>>))

\* the callables that evaluate no tagged template of t
PlainCallables ==
    { ArrowFunctionExpression(BlockStatement(<<>>)),
      ArrowFunctionExpression(Literal(StrX)),
      ArrowFunctionExpression(Literal(ObjA)),
      ArrowFunctionExpression(Literal(ArrXY)),
      ArrowFunctionExpression(ArrowFunctionExpression(Literal(StrX))),
      ArrowFunctionExpression(TemplateLiteral(0, << <<"y">> >>, <<>>)),
      ArrowFunctionExpression(Wrapped("basicTag", Literal(Num(12)))) }

RECURSIVE Nested(_)
\* the callables that evaluate a template tagged with t, nested d deep
Nested(d) ==
    IF d = 0 THEN {Literal(Num(1)), ArrowFunctionExpression(Identifier("name"))}
    ELSE {ArrowFunctionExpression(Wrapped("t", e)) : e \in Nested(d - 1)}
         \cup (IF d = 1
               THEN {ArrowFunctionExpression(BlockStatement(
                        <<ReturnStatement(Wrapped("t", Literal(ArrXY)))>>))}
               ELSE {})

\* the values of a direct call
Values ==
    Constants
    \cup {Fun(e.body) : e \in PlainCallables}
    \cup UNION {{Fun(e.body) : e \in Nested(d)} : d \in 1..MaxDepth}

Letters == <<"a", "b", "c", "d", "e", "f", "g", "h">>
\* n distinct fragments
Fragments(n) == [j \in 1..n |-> Str(<<Letters[j]>>)]

ValueLists == UNION {[1..n -> Values] : n \in 0..MaxValues}

\* a tagged template hands over one fragment more than values; a direct
\* call may hand over fewer or more
Arities(n) == {n, n + 1, n + 2}

InitCall ==
    /\ host \in BOOLEAN
    /\ mode = "call"
    /\ phase = "running"
    /\ ast = NoNode /\ source = NoNode /\ queue = <<>> /\ replacements = 0
    /\ logged = <<>>
    /\ scope = ModuleScope
    /\ outcome = NoOutcome
    /\ \E values \in ValueLists : \E n \in Arities(Len(values)) :
          stack = <<CallFrame(TagT, Fragments(n), values)>>

Init == InitCall

Next == Run

Spec == Init /\ [][Next]_vars

-----------------------------------------------------------------------------
(* fromFile: the two plugins, run by transformSync in one traversal         *)

TAG_NAME == "t"
LABEL_NAME == "template"

\* a path is a sequence of steps from the Program node; a step is <<key>>
\* or, into a list, <<key, index>>
RECURSIVE Get(_, _)
Get(node, path) ==
    IF path = <<>> THEN node
    ELSE LET s == Head(path) IN
         Get(IF Len(s) = 1 THEN node[s[1]] ELSE node[s[1]][s[2]], Tail(path))

RECURSIVE Put(_, _, _)
\* the tree with the node at path replaced
Put(node, path, new) ==
    IF path = <<>> THEN new
    ELSE LET s == Head(path) IN
         IF Len(s) = 1 THEN [node EXCEPT ![s[1]] = Put(@, Tail(path), new)]
         ELSE [node EXCEPT ![s[1]][s[2]] = Put(@, Tail(path), new)]

\* the steps to a node's children, in the order Babel visits them
\* (a template literal's quasis are TemplateElements, which hold no node)
ChildSteps(node) ==
    LET each(key) == [j \in DOMAIN node[key] |-> <<key, j>>] IN
    CASE node.type \in {"Program", "BlockStatement"} -> each("body")
      [] node.type = "ExpressionStatement" -> << <<"expression">> >>
      [] node.type = "LabeledStatement" -> << <<"label">>, <<"body">> >>
      [] node.type = "ReturnStatement" ->
            IF node.argument = NoNode THEN <<>> ELSE << <<"argument">> >>
      [] node.type = "TemplateLiteral" -> each("expressions")
      [] node.type = "TaggedTemplateExpression" -> << <<"tag">>, <<"quasi">> >>
      [] node.type = "ArrowFunctionExpression" -> << <<"body">> >>
      [] OTHER -> <<>>

Reverse(seq) == [j \in DOMAIN seq |-> seq[Len(seq) + 1 - j]]

\* the paths of a node's children queued, the first child to be visited next
Enqueue(q, path, node) ==
    q \o [j \in DOMAIN ChildSteps(node) |-> Append(path, Reverse(ChildSteps(node))[j])]

\* path.parent
Parent(path) == Get(ast, Pop(path))

\* transformTTL's test: the literal is not already tagged
NotTagged(parent) == parent.type # "TaggedTemplateExpression"

\* t.taggedTemplateExpression(t.identifier(tagName), path.node)
Tagging(tagName, node) == TaggedTemplateExpression(Identifier(tagName), node)

\* transformLabelToReturn's test
IsTemplateLabel(node, labelName) == node.label.name = labelName

\* t.returnStatement(path.node.body.expression)
LabelToReturn(node) == ReturnStatement(Prop(node.body, "expression"))

Transform(newAst, newQueue, n, log) ==
    /\ ast' = newAst
    /\ queue' = newQueue
    /\ replacements' = replacements + n
    /\ logged' = logged \o log
    /\ UNCHANGED <<host, mode, phase, source, scope, stack, outcome>>

Visiting(type) ==
    /\ phase = "transform" /\ queue # <<>>
    /\ Get(ast, Top(queue)).type = type

\* the TemplateLiteral visitor; a replaced path is queued again
VisitTemplateLiteral ==
    /\ Visiting("TemplateLiteral")
    /\ LET path == Top(queue)
           node == Get(ast, path)
       IN  IF NotTagged(Parent(path))
           THEN Transform(Put(ast, path, Tagging(TAG_NAME, node)), queue, 1, <<>>)
           ELSE Transform(ast, Enqueue(Pop(queue), path, node), 0, <<>>)

\* the LabeledStatement visitor, which logs every label it meets
VisitLabeledStatement ==
    /\ Visiting("LabeledStatement")
    /\ LET path == Top(queue)
           node == Get(ast, path)
       IN  IF IsTemplateLabel(node, LABEL_NAME)
           THEN Transform(Put(ast, path, LabelToReturn(node)), queue, 1, <<node.label.name>>)
           ELSE Transform(ast, Enqueue(Pop(queue), path, node), 0, <<node.label.name>>)

\* a node no plugin visits: the traversal goes on to its children
VisitOther ==
    /\ phase = "transform" /\ queue # <<>>
    /\ Get(ast, Top(queue)).type \notin {"TemplateLiteral", "LabeledStatement"}
    /\ Transform(ast, Enqueue(Pop(queue), Top(queue), Get(ast, Top(queue))), 0, <<>>)

\* the traversal is over: the code is generated and wrapped by new Function,
\* which parses the generated text back into the statements it was printed from
Compile ==
    /\ phase = "transform" /\ queue = <<>>
    /\ phase' = "compiled"
    /\ UNCHANGED <<host, mode, ast, source, queue, replacements, logged, scope, stack, outcome>>

\* the caller renders: the function's body runs inside with (context)
Render ==
    /\ phase = "compiled"
    /\ phase' = "running"
    /\ stack' = <<BlockFrame(ast.body, TRUE)>>
    /\ UNCHANGED <<host, mode, ast, source, queue, replacements, logged, scope, outcome>>

-----------------------------------------------------------------------------
(* The template sources                                                     *)

\* n + 1 fragments for n interpolations
Quasis(n) == [j \in 1..(n + 1) |-> <<Letters[j]>>]

Lit(start, exprs) == TemplateLiteral(start, Quasis(Len(exprs)), exprs)

Labeled(name, stmt) == LabeledStatement(Identifier(name), stmt)

\* the statements a source is made of; p places the statement's literals
Statements(p) ==
    LET at(k) == 10 * p + k IN
    { \* code that runs ahead of the template
      ExpressionStatement(Literal(Num(1))),
      \* template: `a`
      Labeled(LABEL_NAME, ExpressionStatement(Lit(at(0), <<>>))),
      \* template: `a${name}b${() => { return `a${() => 'x'}b` }}c`
      Labeled(LABEL_NAME, ExpressionStatement(Lit(at(0),
          << Identifier("name"),
             ArrowFunctionExpression(BlockStatement(<<ReturnStatement(
                 Lit(at(1), <<ArrowFunctionExpression(Literal(StrX))>>))>>)) >>))),
      \* template: `a${`a`}b`
      Labeled(LABEL_NAME, ExpressionStatement(Lit(at(0), <<Lit(at(1), <<>>)>>))),
      \* template: basicTag`a${12}b`
      Labeled(LABEL_NAME, ExpressionStatement(
          TaggedTemplateExpression(Identifier("basicTag"), Lit(at(0), <<Literal(Num(12))>>)))),
      \* template: `a``a`
      Labeled(LABEL_NAME, ExpressionStatement(
          TaggedTemplateExpression(Lit(at(0), <<>>), Lit(at(1), <<>>)))),
      \* template: { `a` }
      Labeled(LABEL_NAME, BlockStatement(<<ExpressionStatement(Lit(at(0), <<>>))>>)),
      \* template: 12
      Labeled(LABEL_NAME, ExpressionStatement(Literal(Num(12)))),
      \* template: `a${['x', 'y']}b`
      Labeled(LABEL_NAME, ExpressionStatement(Lit(at(0), <<Literal(ArrXY)>>))),
      \* `a`
      ExpressionStatement(Lit(at(0), <<>>)),
      \* other: `a`
      Labeled("other", ExpressionStatement(Lit(at(0), <<>>))),
      \* () => { template: `a` }
      ExpressionStatement(ArrowFunctionExpression(BlockStatement(
          <<Labeled(LABEL_NAME, ExpressionStatement(Lit(at(0), <<>>)))>>))),
      \* { template: `a` }
      BlockStatement(<<Labeled(LABEL_NAME, ExpressionStatement(Lit(at(0), <<>>)))>>) }

Sources ==
    UNION {{Program(body) : body \in {b \in [1..n -> UNION {Statements(p) : p \in 1..n}] :
                                        \A p \in 1..n : b[p] \in Statements(p)}}
           : n \in 1..MaxStmts}

\* the context the caller renders with: the data and the tags
Context == ModuleScope

InitFile ==
    /\ host \in BOOLEAN
    /\ mode = "file"
    /\ phase = "transform"
    /\ source \in Sources
    /\ ast = source
    /\ queue = << <<>> >>
    /\ replacements = 0
    /\ logged = <<>>
    /\ scope = Context
    /\ stack = <<>>
    /\ outcome = NoOutcome

NextFile ==
    \/ VisitTemplateLiteral
    \/ VisitLabeledStatement
    \/ VisitOther
    \/ Compile
    \/ Render
    \/ Run

SpecFile == InitFile /\ [][NextFile]_vars

-----------------------------------------------------------------------------
(* Properties of the tag and of the value processor                         *)

\* the frames of the invocations of the tag t that are in their loop
TagFrames ==
    {j \in DOMAIN stack : /\ stack[j].kind = "template"
                          /\ stack[j].phase = "loop"
                          /\ IsTag(stack[j].tagv, "t")}

\* every call of the processor made so far by a running invocation of t
ProcessorCalls ==
    UNION {{stack[j].calls[c] : c \in DOMAIN stack[j].calls} : j \in TagFrames}

\* a tagged template's arity: one fragment more than values
Matched(frame) == Len(frame.parts) = Len(frame.values) + 1

RECURSIVE Interleaved(_, _)
\* parts[0] + rets[0] + parts[1] + ... + rets[n-1] + parts[n]
Interleaved(parts, rets) ==
    IF rets = <<>> THEN parts[1].s
    ELSE parts[1].s \o ToStr(rets[1]) \o Interleaved(Tail(parts), Tail(rets))

\* the invocation on top of the stack has left its loop and returns
Returns(frame) == frame.phase = "loop" /\ ~TagContinues(frame)

\* C1: for parts and values with len(parts) = len(values) + 1 the tag yields
\* parts[0] + process(values[0]) + parts[1] + ... + process(values[n-1]) +
\* parts[n]: when an invocation of t returns, the processor has been called
\* once on each value, in index order, its result is the fragments
\* interleaved with what those calls returned, and that result is what the
\* caller of the outermost invocation receives
TagYieldsInterleaving ==
    [][(OnTop("template") /\ IsTag(Top(stack).tagv, "t") /\ Returns(Top(stack))
        /\ Matched(Top(stack)))
       => LET f == Top(stack) IN
          /\ Len(f.calls) = Len(f.values)
          /\ \A j \in DOMAIN f.calls : f.calls[j].arg = f.values[j]
          /\ f.result = Str(Interleaved(f.parts, [j \in DOMAIN f.calls |-> f.calls[j].ret]))
          /\ (Len(stack) = 1 => outcome' = Return(f.result))]_vars

\* C1 witness: a direct call with two values, the first a callable, returns
TagYieldsWitness ==
    /\ mode = "call" /\ Len(stack) = 1 /\ Returns(stack[1]) /\ Matched(stack[1])
    /\ Len(stack[1].values) = 2
    /\ TypeOf(stack[1].values[1]) = "function"
    /\ stack[1].values[2] = Num(12)

\* C2: processValue returns a value of string type, without raising, for a
\* value of any shape
ProcessReturnsString ==
    /\ \A c \in ProcessorCalls : c.ret.k = "string"
    /\ outcome # Throw(JoinIsNotAFunction)

RECURSIVE ClaimedProcess(_)
\* C3 as claimed: the result of a callable is processed by the shape rules
ClaimedProcess(r) ==
    IF IsArray(r) THEN Throw("C4")
    ELSE IF TypeOf(r) = "function" /\ r.body.type = "Literal" THEN ClaimedProcess(r.body.value)
    ELSE IF TypeOf(r) = "function" /\ r.body.type = "ArrowFunctionExpression"
         THEN ClaimedProcess(Fun(r.body.body))
    ELSE processValue(r)

SequenceJoined ==
    /\ \A c \in ProcessorCalls :
          IsArray(c.arg) =>
              c.ret = Str(JoinWith([j \in DOMAIN c.arg.e |-> ToStr(c.arg.e[j])], <<>>))
    /\ outcome # Throw(JoinIsNotAFunction)

\* C5: null and undefined both give the empty string, and a non-null record
\* its JSON text
NullIsEmpty ==
    \A c \in ProcessorCalls :
        /\ c.arg \in {Null, Undefined} => c.ret = EmptyString
        /\ c.arg.k = "object" => c.ret = Str(JsonText(c.arg))

\* C6: an invocation with len(fragments) # len(values) + 1 is rejected: it
\* never gets to return a string
ArityRejected ==
    \A j \in TagFrames :
        ~Matched(stack[j]) => ~(Returns(stack[j]) /\ stack[j].result.k = "string")

\* the invocation of t that called the callable whose template returns
CallerOf(stk) ==
    IF Len(stk) >= 2 /\ Len(stk) - 1 \in TagFrames THEN Len(stk) - 1
    ELSE IF /\ Len(stk) >= 3 /\ Len(stk) - 2 \in TagFrames
            /\ stk[Len(stk) - 1].kind = "block"
            /\ stk[Len(stk) - 1].fn /\ stk[Len(stk) - 1].returning
         THEN Len(stk) - 2
    ELSE 0

\* C7: when the template a callable value evaluates returns, the invocation
\* that called the callable, at any depth, continues with its own result and
\* index: the inner string is appended at the value's position, then the next
\* fragment, and every invocation below is as it was
ReentrantTag ==
    [][(OnTop("template") /\ IsTag(Top(stack).tagv, "t") /\ Returns(Top(stack))
        /\ CallerOf(stack) # 0)
       => LET k == CallerOf(stack)
              outer == stack[k]
              inner == Top(stack).result
          IN  /\ inner.k = "string"
              /\ Len(stack') = k
              /\ SubSeq(stack', 1, k - 1) = SubSeq(stack, 1, k - 1)
              /\ stack'[k] = [outer EXCEPT
                                !.result = Str(outer.result.s \o inner.s
                                               \o outer.parts[outer.i + 1].s),
                                !.i = outer.i + 1,
                                !.calls = stack'[k].calls]
              /\ stack'[k].calls[outer.i].ret = inner]_vars

\* C7 witness: a template two callables deep returns into the invocation
\* that is itself inside a callable of the outermost one
ReentrantWitness ==
    /\ OnTop("template") /\ IsTag(Top(stack).tagv, "t") /\ Returns(Top(stack))
    /\ CallerOf(stack) >= 2
    /\ Cardinality(TagFrames) >= 3
    /\ stack[1].i = 2

-----------------------------------------------------------------------------
(* Properties of fromFile                                                   *)

RECURSIVE Flatten(_)
Flatten(seqs) == IF seqs = <<>> THEN <<>> ELSE Head(seqs) \o Flatten(Tail(seqs))

RECURSIVE PathsFrom(_, _)
\* the paths of the node at path and of every node below it
PathsFrom(root, path) ==
    LET steps == ChildSteps(Get(root, path)) IN
    <<path>> \o Flatten([j \in DOMAIN steps |-> PathsFrom(root, Append(path, steps[j]))])

\* the paths of the template literals of a tree
LiteralPaths(root) ==
    SelectSeq(PathsFrom(root, <<>>), LAMBDA q : Get(root, q).type = "TemplateLiteral")

\* the literal at path q is the quasi of a tagged template expression
IsQuasi(root, q) ==
    Get(root, Pop(q)).type = "TaggedTemplateExpression" /\ Top(q) = <<"quasi">>

\* two tag expressions are the same identifier or the same literal
SameTag(a, b) ==
    IF a.type = "TemplateLiteral" THEN b.type = "TemplateLiteral" /\ b.start = a.start
    ELSE a = b

\* the statements labeled `template` of a tree
TemplateLabels(root) ==
    SelectSeq(PathsFrom(root, <<>>),
              LAMBDA q : /\ Get(root, q).type = "LabeledStatement"
                         /\ Get(root, q).label.name = LABEL_NAME)

ConfigurationError == "ConfigurationError"

Rendered == mode = "file" /\ phase = "done"

\* C8: a source with no statement labeled `template` fails with a
\* ConfigurationError, at compile or at render, and never returns undefined
NoTemplateIsConfigurationError ==
    (Rendered /\ Len(TemplateLabels(source)) = 0)
        => outcome = Throw(ConfigurationError)

\* C9: a source with exactly one statement labeled `template`, wherever it
\* sits and whatever it labels, renders to a string
OneTemplateRendersString ==
    (Rendered /\ Len(TemplateLabels(source)) = 1)
        => (outcome.kind = "return" /\ outcome.value.k = "string")

\* C10: after the rewrite every template literal of the source is the quasi
\* of exactly one tagged template expression, tagged with t when it was
\* untagged and with its own tag otherwise, and the rewrite took no more
\* replacements than the source has nodes
EveryLiteralTaggedOnce ==
    (mode = "file" /\ phase # "transform") =>
        LET was == LiteralPaths(source)
            now == LiteralPaths(ast)
        IN  /\ \A j \in DOMAIN was :
                  LET lit == Get(source, was[j])
                      occ == {n \in DOMAIN now : Get(ast, now[n]).start = lit.start}
                  IN  /\ Cardinality(occ) = 1
                      /\ \A n \in occ :
                            /\ IsQuasi(ast, now[n])
                            /\ SameTag(IF IsQuasi(source, was[j])
                                       THEN Get(source, Pop(was[j])).tag
                                       ELSE Identifier(TAG_NAME),
                                       Get(ast, Pop(now[n])).tag)
            /\ replacements <= Len(PathsFrom(source, <<>>))

====
